---- MODULE Spec2Model ----
(***************************************************************************)
(* The pipeline of crammer: the in-memory store (lib/store), the request    *)
(* handlers /api/upload (POST, DELETE), /api/transcribe (POST),            *)
(* /api/process (POST) and /api/generate-podcast (POST), and the helpers   *)
(* of lib/metadata they call.                                              *)
(*                                                                         *)
(* A handler runs atomically from one `await` of an external call or file  *)
(* read to the next: Node runs one continuation at a time, and every       *)
(* other request may run between two continuations.  A request that is     *)
(* suspended on an await occupies a slot of `reqs` with its local          *)
(* variables.  The body parse at the head of a handler reads no state, so  *)
(* the request is taken to arrive when its body has been parsed.           *)
(***************************************************************************)
EXTENDS Integers, Sequences, FiniteSets, TLC

(***************************************************************************)
(* Bounds of the model.                                                    *)
(***************************************************************************)
\* recordings ever uploaded (uuid v4 identifiers are never reused)
MaxFiles == 2
\* lectures ever created (uuid v4 identifiers are never reused)
MaxLectures == 2
\* requests suspended on an await at the same time
MaxInFlight == 2
\* files of one upload request
MaxUpload == 2
\* minutes between the writes of two saved files
UploadGap == 2
\* groups of one grouping response
MaxGroups == 2
\* distinct transcript texts the speech-to-text service returns
MaxText == 2
\* podcast scripts ever created (uuid v4 identifiers are never reused)
MaxScripts == 2
\* recordings in the store when the Sequencer is studied on its own
SortFiles == 3

(***************************************************************************)
(* Sequences and records.                                                  *)
(***************************************************************************)
RECURSIVE SetToSeq(_)
\* the elements of a finite set of integers, ascending
SetToSeq(S) ==
    IF S = {} THEN <<>>
    ELSE LET m == CHOOSE x \in S : \A y \in S : x <= y
         IN  <<m>> \o SetToSeq(S \ {m})

Range(s) == {s[i] : i \in 1..Len(s)}

RECURSIVE Filter(_, _)
\* Array.prototype.filter with keep[i] deciding element i
Filter(s, keep) ==
    IF s = <<>> THEN <<>>
    ELSE (IF keep[1] THEN <<Head(s)>> ELSE <<>>)
         \o Filter(Tail(s), [i \in 1..(Len(s) - 1) |-> keep[i + 1]])

\* sequences over S of length lo..hi
SeqsOf(S, lo, hi) == UNION {[1..n -> S] : n \in lo..hi}

\* sequences over S without repetition, of length at most n
DistinctSeqs(S, n) ==
    {s \in SeqsOf(S, 0, n) : \A i, j \in 1..Len(s) : i # j => s[i] # s[j]}

\* { ...existing, ...updates }
Merge(existing, updates) ==
    [k \in DOMAIN existing \cup DOMAIN updates |->
        IF k \in DOMAIN updates THEN updates[k] ELSE existing[k]]

(***************************************************************************)
(* types: AudioFile, Transcription, Lecture, ProcessingStatus.             *)
(* An optional field that is absent holds NoMessage.                       *)
(***************************************************************************)
NoMessage == "undefined"

\* the empty string, among transcript texts
EmptyText == 0

FileStatus == {"uploaded", "transcribing", "transcribed", "error"}

Phase == {"idle", "uploading", "transcribing", "processing", "complete", "error"}

\* messages of the errors the external calls throw
SttMessages == {"Deepgram transcription error"}

LlmMessages == {"Failed to parse Claude response as JSON"}

\* the errors of a missing credential
SttKeyMessage == "DEEPGRAM_API_KEY is not set in environment variables"

LlmKeyMessage == "ANTHROPIC_API_KEY is not set in environment variables"

\* the TypeError of iterating or dereferencing undefined
TypeErrorMessage == "TypeError: undefined"

\* fs.readFileSync of a file that is gone
ReadError == "ENOENT: no such file or directory"

Texts == 1..MaxText

FileIds == 1..MaxFiles

\* an identifier that names no recording
UnknownId == MaxFiles + 1

LectureIds == 1..MaxLectures

ScriptIds == 1..MaxScripts

(***************************************************************************)
(* lib/store: createStore and the store's operations, as functions of the  *)
(* collection they act on.  A Map keeps insertion order; identifiers are   *)
(* handed out ascending, so insertion order is identifier order.           *)
(***************************************************************************)
\* a fresh status that keeps an error message: the variant the reset
\* property must tell from the code
createStoreStatusWithMessage ==
    [totalFiles |-> 0, transcribedFiles |-> 0, lecturesGenerated |-> 0,
     phase |-> "idle", errorMessage |-> "stale"]

createStoreStatus ==
    [totalFiles |-> 0, transcribedFiles |-> 0, lecturesGenerated |-> 0,
     phase |-> "idle", errorMessage |-> NoMessage]

addAudioFile(files, file) ==
    [id \in DOMAIN files \cup {file.id} |->
        IF id = file.id THEN file ELSE files[id]]

\* an update that also rewrites the recording's media type: the variant
\* the frame property of recordings must tell from the code
updateAudioFileRetyped(files, id, updates) ==
    IF id \in DOMAIN files
    THEN [files EXCEPT ![id] = Merge([@ EXCEPT !.mimeType = ""], updates)]
    ELSE files

updateAudioFile(files, id, updates) ==
    IF id \in DOMAIN files
    THEN [files EXCEPT ![id] = Merge(@, updates)]
    ELSE files

getAllAudioFiles(files) ==
    LET ids == SetToSeq(DOMAIN files)
    IN  [i \in 1..Len(ids) |-> files[ids[i]]]

\* an addTranscription that stores nothing
addTranscriptionDropped(trs, t) == trs

addTranscription(trs, t) ==
    [id \in DOMAIN trs \cup {t.audioFileId} |->
        IF id = t.audioFileId THEN t ELSE trs[id]]

addLecture(lecs, lecture) ==
    [id \in DOMAIN lecs \cup {lecture.id} |->
        IF id = lecture.id THEN lecture ELSE lecs[id]]

\* a clearLectures that keeps the lectures
clearLecturesKept(lecs) == lecs

clearLectures(lecs) == <<>>

getLecture(lecs, id) == IF id \in DOMAIN lecs THEN <<lecs[id]>> ELSE <<>>

\* a store that keeps one script per lecture: the variant the append-only
\* property must tell from the code
addPodcastScriptPerLecture(scripts, script) ==
    [id \in {i \in DOMAIN scripts : scripts[i].lectureId # script.lectureId}
            \cup {script.id} |->
        IF id = script.id THEN script ELSE scripts[id]]

addPodcastScript(scripts, script) ==
    [id \in DOMAIN scripts \cup {script.id} |->
        IF id = script.id THEN script ELSE scripts[id]]

updateStatus(st, updates) == Merge(st, updates)

(***************************************************************************)
(* lib/metadata.  A filename is a sequence of one-character strings.  A    *)
(* regular expression is matched as the engine matches it: at the          *)
(* leftmost position where it matches, each repetition as long as it can   *)
(* be.                                                                     *)
(***************************************************************************)
Digits == {"0", "1", "2", "3", "4", "5", "6", "7", "8", "9"}

LowerLetters ==
    {"a", "b", "c", "d", "e", "f", "g", "h", "i", "j", "k", "l", "m",
     "n", "o", "p", "q", "r", "s", "t", "u", "v", "w", "x", "y", "z"}

UpperLetters ==
    {"A", "B", "C", "D", "E", "F", "G", "H", "I", "J", "K", "L", "M",
     "N", "O", "P", "Q", "R", "S", "T", "U", "V", "W", "X", "Y", "Z"}

\* \w
WordChars == Digits \cup LowerLetters \cup UpperLetters \cup {"_"}

\* [_\-\s]
SeqSeparators == {"_", "-", " "}

DigitValue(c) ==
    CASE c = "0" -> 0 [] c = "1" -> 1 [] c = "2" -> 2 [] c = "3" -> 3
      [] c = "4" -> 4 [] c = "5" -> 5 [] c = "6" -> 6 [] c = "7" -> 7
      [] c = "8" -> 8 [] c = "9" -> 9

RECURSIVE parseInt(_)
\* parseInt(digits, 10) of a sequence of digits
parseInt(ds) ==
    IF ds = <<>> THEN 0
    ELSE 10 * parseInt(SubSeq(ds, 1, Len(ds) - 1)) + DigitValue(ds[Len(ds)])

RECURSIVE Skip(_, _, _)
\* the position after the longest run of characters of S in s that starts
\* at position i
Skip(s, i, S) ==
    IF i <= Len(s) /\ s[i] \in S THEN Skip(s, i + 1, S) ELSE i

\* the greatest and the least element of a non-empty set of positions
Last(at) == CHOOSE i \in at : \A j \in at : j <= i

First(at) == CHOOSE i \in at : \A j \in at : i <= j

\* the last position of character c in s, 0 when it does not occur
LastIndexOf(s, c) == Last({0} \cup {i \in 1..Len(s) : s[i] = c})

\* the part of a path after its last "/"
LastSegment(filename) ==
    SubSeq(filename, LastIndexOf(filename, "/") + 1, Len(filename))

\* the extension of segment b whose last "." is at position k: none when
\* there is no ".", when it is the first character, or when b is ".."
ExtensionFrom(b, k) ==
    IF k <= 1 \/ b = <<".", ".">> THEN <<>> ELSE SubSeq(b, k, Len(b))

\* path.extname
extname(filename) ==
    ExtensionFrom(LastSegment(filename),
                  LastIndexOf(LastSegment(filename), "."))

\* path.basename(filename, path.extname(filename))
basename(filename) ==
    SubSeq(LastSegment(filename), 1,
           Len(LastSegment(filename)) - Len(extname(filename)))

\* String.prototype.toLowerCase, one character
toLowerCase(c) ==
    CASE c = "A" -> "a" [] c = "B" -> "b" [] c = "C" -> "c"
      [] c = "D" -> "d" [] c = "E" -> "e" [] c = "F" -> "f"
      [] c = "G" -> "g" [] c = "H" -> "h" [] c = "I" -> "i"
      [] c = "J" -> "j" [] c = "K" -> "k" [] c = "L" -> "l"
      [] c = "M" -> "m" [] c = "N" -> "n" [] c = "O" -> "o"
      [] c = "P" -> "p" [] c = "Q" -> "q" [] c = "R" -> "r"
      [] c = "S" -> "s" [] c = "T" -> "t" [] c = "U" -> "u"
      [] c = "V" -> "v" [] c = "W" -> "w" [] c = "X" -> "x"
      [] c = "Y" -> "y" [] c = "Z" -> "z"
      [] OTHER -> c

\* String.prototype.toLowerCase
LowerCase(s) == [k \in 1..Len(s) |-> toLowerCase(s[k])]

\* the sequence t occurs in s at position i
OccursAt(s, i, t) ==
    /\ i >= 1
    /\ i + Len(t) - 1 <= Len(s)
    /\ SubSeq(s, i, i + Len(t) - 1) = t

NoSequence == -1

\* a sequence number found by an earlier pattern, or else by the later ones
OrElseSequence(found, later) == IF found # NoSequence THEN found ELSE later

\* /^(\d+)[_\-\s]/ when the leading digits end before position n
LeadingNumber(base, n) ==
    IF n > 1 /\ n <= Len(base) /\ base[n] \in SeqSeparators
    THEN parseInt(SubSeq(base, 1, n - 1)) ELSE NoSequence

LeadingMatch(base) == LeadingNumber(base, Skip(base, 1, Digits))

\* where the digits of /\bpart[_\-\s]*(\d+)\b/i start when "part" is at i
PartDigits(base, i) == Skip(base, i + 4, SeqSeparators)

\* (\d+)\b with the digits from position d to before position e
PartNumberEnds(base, d, e) ==
    /\ e > d
    /\ (e > Len(base) \/ base[e] \notin WordChars)

\* /\bpart[_\-\s]*(\d+)\b/i matched at position i of base
PartMatchesAt(base, i) ==
    /\ (i = 1 \/ base[i - 1] \notin WordChars)
    /\ OccursAt(LowerCase(base), i, <<"p", "a", "r", "t">>)
    /\ PartNumberEnds(base, PartDigits(base, i),
                      Skip(base, PartDigits(base, i), Digits))

\* the number of the match whose digits start at position d
PartNumber(base, d) == parseInt(SubSeq(base, d, Skip(base, d, Digits) - 1))

\* the number of the leftmost of the matches at the positions at
PartAmong(base, at) ==
    IF at = {} THEN NoSequence
    ELSE PartNumber(base, PartDigits(base, First(at)))

PartMatch(base) ==
    PartAmong(base, {i \in 1..Len(base) : PartMatchesAt(base, i)})

\* /[_\-\s](\d+)$/ with the digits at the positions at
TrailingAmong(base, at) ==
    IF at = {} THEN NoSequence
    ELSE parseInt(SubSeq(base, First(at), Len(base)))

TrailingMatch(base) ==
    TrailingAmong(base, {i \in 2..Len(base) :
                            /\ base[i - 1] \in SeqSeparators
                            /\ \A k \in i..Len(base) : base[k] \in Digits})

\* /^(\d+)$/
BareMatch(base) ==
    IF Len(base) >= 1 /\ \A k \in 1..Len(base) : base[k] \in Digits
    THEN parseInt(base) ELSE NoSequence

\* the patterns in the order the function tries them
SequenceOfBase(base) ==
    OrElseSequence(LeadingMatch(base),
        OrElseSequence(PartMatch(base),
            OrElseSequence(TrailingMatch(base), BareMatch(base))))

parseSequenceFromFilename(filename) == SequenceOfBase(basename(filename))

\* ALLOWED_AUDIO_TYPES
ALLOWED_AUDIO_TYPES ==
    {"audio/mpeg", "audio/mp4", "audio/x-m4a", "audio/m4a", "audio/wav",
     "audio/wave", "audio/x-wav", "audio/ogg", "audio/webm", "audio/flac",
     "audio/x-flac", "video/mp4", "video/webm"}

AllowedExtensions ==
    {<<".", "m", "p", "3">>, <<".", "m", "p", "4">>, <<".", "m", "4", "a">>,
     <<".", "w", "a", "v">>, <<".", "o", "g", "g">>,
     <<".", "w", "e", "b", "m">>, <<".", "f", "l", "a", "c">>,
     <<".", "a", "a", "c">>, <<".", "o", "p", "u", "s">>}

\* the keys every object literal inherits: ALLOWED_AUDIO_TYPES[key] is a
\* function or an object, which is truthy
InheritedKeys ==
    {"constructor", "toString", "toLocaleString", "valueOf", "hasOwnProperty",
     "isPrototypeOf", "propertyIsEnumerable", "__proto__"}

isAllowedAudioType(mimeType, filename) ==
    \/ mimeType \in ALLOWED_AUDIO_TYPES \cup InheritedKeys
    \/ LowerCase(extname(filename)) \in AllowedExtensions

(***************************************************************************)
(* Time.  A Date is its count of minutes since 1970-01-01 00:00 local      *)
(* time (an integer of the model does not hold a count of milliseconds),   *)
(* and the local time zone has no daylight saving.  The saved copy of the  *)
(* k-th recording is written at Clock(k), and the current time lies        *)
(* between the last write and the next.                                    *)
(***************************************************************************)
MsPerMinute == 60 * 1000

MinutesPerDay == 24 * 60

\* days from 1970-01-01 to day doy of the year that starts in March, in
\* the 400-year era of which it is year yoe
DaysFromEra(era, yoe, doy) ==
    era * 146097 + yoe * 365 + (yoe \div 4) - (yoe \div 100) + doy - 719468

\* the same for year y, counted from March
DaysFromMarchYear(y, doy) == DaysFromEra(y \div 400, y % 400, doy)

\* days from 1970-01-01 to the first day of month (1..12) of year
DaysFromCivil(year, month) ==
    IF month > 2
    THEN DaysFromMarchYear(year, (153 * (month - 3) + 2) \div 5)
    ELSE DaysFromMarchYear(year - 1, (153 * (month + 9) + 2) \div 5)

\* MakeDay: a month outside 0..11 carries into the year, and the day of the
\* month is counted on from the first of the month
MakeDay(year, month, date) ==
    DaysFromCivil(year + (month \div 12), (month % 12) + 1) + date - 1

\* new Date(year, monthIndex, day): a year of 0..99 stands for 1900 + year;
\* the result is never an invalid Date for arguments of this size
NewDate(year, monthIndex, day) ==
    MakeDay(IF year \in 0..99 THEN 1900 + year ELSE year, monthIndex, day)
        * MinutesPerDay

\* the time of the first write to the upload directory
FirstUpload == NewDate(2025, 0, 6) + 9 * 60

Clock(k) == FirstUpload + (k - 1) * UploadGap

NoDate == -1

\* a Date found by an earlier pattern, or else by the later ones
OrElseDate(found, later) == IF found # NoDate THEN found ELSE later

\* s has n digits from position i on
DigitsAt(s, i, n) ==
    /\ i >= 1
    /\ i + n - 1 <= Len(s)
    /\ \A k \in i..(i + n - 1) : s[k] \in Digits

\* the number written by the n digits of s from position i on
NumberAt(s, i, n) == parseInt(SubSeq(s, i, i + n - 1))

\* [_\-\.]
DateSeparators == {"_", "-", "."}

\* /(\d{4})[_\-\.](\d{2})[_\-\.](\d{2})/ matched at position i of base
YmdMatchesAt(base, i) ==
    /\ i + 9 <= Len(base)
    /\ DigitsAt(base, i, 4)
    /\ base[i + 4] \in DateSeparators
    /\ DigitsAt(base, i + 5, 2)
    /\ base[i + 7] \in DateSeparators
    /\ DigitsAt(base, i + 8, 2)

\* the Date of year, month and day when the year is after 2000
YmdOf(y, m, d) == IF y > 2000 THEN NewDate(y, m - 1, d) ELSE NoDate

\* the Date of the leftmost of the matches at the positions at
YmdAmong(base, at) ==
    IF at = {} THEN NoDate
    ELSE YmdOf(NumberAt(base, First(at), 4), NumberAt(base, First(at) + 5, 2),
               NumberAt(base, First(at) + 8, 2))

\* "YYYY-MM-DD or YYYY_MM_DD"
YmdDate(base) == YmdAmong(base, {i \in 1..Len(base) : YmdMatchesAt(base, i)})

\* /(?<!\d)(\d{4})(\d{2})(\d{2})(?!\d)/ matched at position i of base
CompactMatchesAt(base, i) ==
    /\ DigitsAt(base, i, 8)
    /\ (i = 1 \/ base[i - 1] \notin Digits)
    /\ (i + 8 > Len(base) \/ base[i + 8] \notin Digits)

\* the Date of y, m and dy when they pass the checks
CompactOf(y, m, dy) ==
    IF y > 2000 /\ m >= 1 /\ m <= 12 /\ dy >= 1 /\ dy <= 31
    THEN NewDate(y, m - 1, dy) ELSE NoDate

CompactAmong(base, at) ==
    IF at = {} THEN NoDate
    ELSE CompactOf(NumberAt(base, First(at), 4), NumberAt(base, First(at) + 4, 2),
                   NumberAt(base, First(at) + 6, 2))

\* "YYYYMMDD (8 consecutive digits)"
CompactDate(base) ==
    CompactAmong(base, {i \in 1..Len(base) : CompactMatchesAt(base, i)})

monthNames ==
    <<<<"j", "a", "n">>, <<"f", "e", "b">>, <<"m", "a", "r">>,
      <<"a", "p", "r">>, <<"m", "a", "y">>, <<"j", "u", "n">>,
      <<"j", "u", "l">>, <<"a", "u", "g">>, <<"s", "e", "p">>,
      <<"o", "c", "t">>, <<"n", "o", "v">>, <<"d", "e", "c">>>>

\* \s, of the characters a filename of the model is made of
WhiteSpace == {" "}

\* [,\s]
CommaSpace == {","} \cup WhiteSpace

\* a year of 0..49 stands for 2000 + year and one of 50..99 for 1900 + year
LegacyYear(given) ==
    IF given \in 0..49 THEN 2000 + given
    ELSE IF given \in 50..99 THEN 1900 + given
    ELSE given

\* the Date of month i (1..12), day and year when the day is one of 1..31
LegacyDate(i, day, year) ==
    IF day \in 1..31 THEN MakeDay(LegacyYear(year), i - 1, day) * MinutesPerDay
    ELSE NoDate

\* new Date(`${monthFull[i]} ${first} ${second}`) as Node's engine reads a
\* date that is not in the ISO format: the first number is the day when it
\* is one of 1..31 and the year otherwise, and the Date is invalid unless
\* the day is one of 1..31
MonthNameDate(i, first, second) ==
    IF first \in 1..31 THEN LegacyDate(i, first, second)
    ELSE LegacyDate(i, second, first)

\* [,\s]+(\d{4}) matched from position c of lower on
YearFollows(lower, c) ==
    /\ Skip(lower, c, CommaSpace) > c
    /\ DigitsAt(lower, Skip(lower, c, CommaSpace), 4)

\* the number (\d{4}) matched after [,\s]+ from position c on
YearAfter(lower, c) == NumberAt(lower, Skip(lower, c, CommaSpace), 4)

\* where the day of shortPattern starts when the month name is at p: after
\* (name)[a-z]*\s*
ShortDay(lower, p) == Skip(lower, Skip(lower, p + 3, LowerLetters), WhiteSpace)

\* (\d{1,2})[,\s]+(\d{4}) with the digits of the day from c to before e
DayThenYear(lower, c, e) == e - c \in 1..2 /\ YearFollows(lower, e)

\* shortPattern, (name)[a-z]*\s*(\d{1,2})[,\s]+(\d{4}), matched with the
\* name of month i at position p
ShortMatchesAt(lower, i, p) ==
    /\ OccursAt(lower, p, monthNames[i])
    /\ DayThenYear(lower, ShortDay(lower, p),
                   Skip(lower, ShortDay(lower, p), Digits))

\* the Date of the match whose day is written from c to before e
ShortOf(lower, i, c, e) ==
    MonthNameDate(i, NumberAt(lower, c, e - c), YearAfter(lower, e))

ShortAmong(lower, i, at) ==
    IF at = {} THEN NoDate
    ELSE ShortOf(lower, i, ShortDay(lower, First(at)),
                 Skip(lower, ShortDay(lower, First(at)), Digits))

\* lower.match(shortPattern) and the Date made of it
ShortDate(lower, i) ==
    ShortAmong(lower, i, {p \in 1..Len(lower) : ShortMatchesAt(lower, i, p)})

\* \s+(name)[a-z]*[,\s]+(\d{4}) matched from position c of lower on, the
\* name being at position b
NameThenYear(lower, i, c, b) ==
    /\ b > c
    /\ OccursAt(lower, b, monthNames[i])
    /\ YearFollows(lower, Skip(lower, b + 3, LowerLetters))

\* reversePattern, (\d{1,2})\s+(name)[a-z]*[,\s]+(\d{4}), matched with the
\* n digits of the day at position p
ReverseMatchesAt(lower, i, p, n) ==
    /\ DigitsAt(lower, p, n)
    /\ NameThenYear(lower, i, p + n, Skip(lower, p + n, WhiteSpace))

\* the Date of the match with the n digits of the day at position p
ReverseOf(lower, i, p, n) ==
    MonthNameDate(i, NumberAt(lower, p, n),
        YearAfter(lower, Skip(lower, Skip(lower, p + n, WhiteSpace) + 3,
                              LowerLetters)))

\* at a position the day takes two digits when it can
ReverseAt(lower, i, p) ==
    IF ReverseMatchesAt(lower, i, p, 2)
    THEN ReverseOf(lower, i, p, 2) ELSE ReverseOf(lower, i, p, 1)

ReverseAmong(lower, i, at) ==
    IF at = {} THEN NoDate ELSE ReverseAt(lower, i, First(at))

\* lower.match(reversePattern) and the Date made of it
ReverseDate(lower, i) ==
    ReverseAmong(lower, i,
        {p \in 1..Len(lower) :
            \E n \in 1..2 : ReverseMatchesAt(lower, i, p, n)})

RECURSIVE MonthDate(_, _)
\* the loop over monthNames from index i on
MonthDate(lower, i) ==
    IF i > Len(monthNames) THEN NoDate
    ELSE OrElseDate(ShortDate(lower, i),
             OrElseDate(ReverseDate(lower, i), MonthDate(lower, i + 1)))

\* the patterns in the order the function tries them
DateOfBase(base) ==
    OrElseDate(YmdDate(base),
        OrElseDate(CompactDate(base), MonthDate(LowerCase(base), 1)))

parseDateFromFilename(filename) == DateOfBase(basename(filename))

(***************************************************************************)
(* The files a client uploads: File.name and File.type.                    *)
(***************************************************************************)
UploadFiles ==
    {[name |-> <<"1", "_", "a", ".", "m", "p", "3">>, type |-> ""],
     [name |-> <<"c", ".", "t", "x", "t">>, type |-> "text/plain"]}

UploadNames == {file.name : file \in UploadFiles}

\* the names of the recordings the Sequencer is studied with: three with a
\* leading number, one without, and two that carry the date of the day on
\* which they are uploaded, one with a leading number and one without
SortNames ==
    {<<"1", "_", "a", ".", "m", "p", "3">>, <<"2", "_", "a", ".", "m", "p", "3">>,
     <<"3", "_", "a", ".", "m", "p", "3">>, <<"a", ".", "m", "p", "3">>,
     <<"2", "_", "2", "0", "2", "5", "-", "0", "1", "-", "0", "6",
       ".", "m", "p", "3">>,
     <<"a", "2", "0", "2", "5", "-", "0", "1", "-", "0", "6", "b",
       ".", "m", "p", "3">>}

\* the names the parsing of dates is studied with: a date written with each
\* of the three separators, a month 13, a 30 February, a date that follows
\* the digits of an earlier one, a date of eight digits, and no date
ParseNames ==
    {<<"2", "0", "2", "4", "-", "0", "1", "-", "1", "5", ".", "m", "p",
       "3">>,
     <<"a", "_", "2", "0", "2", "4", "_", "0", "1", "_", "1", "5", ".",
       "m", "p", "3">>,
     <<"a", " ", "2", "0", "2", "4", ".", "0", "1", ".", "1", "5", ".",
       "m", "p", "3">>,
     <<"2", "0", "2", "4", "-", "1", "3", "-", "0", "1", ".", "m", "p",
       "3">>,
     <<"2", "0", "2", "4", "-", "0", "2", "-", "3", "0", ".", "m", "p",
       "3">>,
     <<"1", "9", "9", "9", "-", "1", "2", "-", "3", "1", "_", "2", "0",
       "2", "4", "-", "0", "1", "-", "1", "5", ".", "m", "p", "3">>,
     <<"2", "0", "2", "4", "0", "1", "1", "5", ".", "m", "p", "3">>,
     <<"a", ".", "m", "p", "3">>}

\* the names the grouping is studied with: a leading number and a "part"
\* number, a "part" number after an underscore, and no number
LectureNames ==
    {<<"1", " ", "p", "a", "r", "t", "2", ".", "m", "p", "3">>,
     <<"a", "_", "p", "a", "r", "t", "2", ".", "m", "p", "3">>,
     <<"a", ".", "m", "p", "3">>}

Names == UploadNames \cup SortNames \cup ParseNames \cup LectureNames

\* parseDateFromFilename and parseSequenceFromFilename of the names of the
\* model, each computed once
DateOfName == [name \in Names |-> parseDateFromFilename(name)]

SequenceOfName == [name \in Names |-> parseSequenceFromFilename(name)]

\* a getRecordedAt that never reads the name
getRecordedAtOfFileOnly(mtime, originalName) == mtime

\* getRecordedAt, with the saved file's mtime for fs.statSync(filePath).mtime
getRecordedAt(mtime, originalName) ==
    IF DateOfName[originalName] # NoDate
    THEN DateOfName[originalName] ELSE mtime

UploadRequests == SeqsOf(UploadFiles, 0, MaxUpload)

\* a file with one of the names of ParseNames, of no declared type
ParseFiles == {[name |-> name, type |-> ""] : name \in ParseNames}

\* file.type || "audio/mpeg"
MimeTypeOf(file) == IF file.type = "" THEN "audio/mpeg" ELSE file.type

\* the files the loop does not skip: those with a name and an allowed type
AcceptedFiles ==
    {file \in UploadFiles \cup ParseFiles :
        /\ file.name # <<>>
        /\ isAllowedAudioType(MimeTypeOf(file), file.name)}

Accepted(file) == file \in AcceptedFiles

(***************************************************************************)
(* State.  Of a response only the handler and the HTTP status are kept.    *)
(***************************************************************************)
VARIABLES
    audioFiles,       \* store.audioFiles: id -> AudioFile
    transcriptions,   \* store.transcriptions: audioFileId -> Transcription
    lectures,         \* store.lectures: id -> Lecture
    podcastScripts,   \* store.podcastScripts: id -> PodcastScript
    status,           \* store.status
    disk,             \* the saved uploads that exist in the upload directory
    nextFileId,       \* the next fresh recording identifier
    nextLectureId,    \* the next fresh lecture identifier
    nextScriptId,     \* the next fresh podcast script identifier
    env,              \* process.env: whether each credential is set
    reqs,             \* the requests suspended on an await, by slot
    response          \* the last response a handler returned

vars == <<audioFiles, transcriptions, lectures, podcastScripts, status, disk,
          nextFileId, nextLectureId, nextScriptId, env, reqs, response>>

\* what no handler of the upload, transcription and grouping routes touches
fixedVars == <<nextScriptId, env>>

storeVars == <<audioFiles, transcriptions, lectures, podcastScripts, status>>

Slots == 1..MaxInFlight

Idle == [kind |-> "idle"]

FreeSlots == {s \in Slots : reqs[s] = Idle}

\* a request that suspends takes the lowest free slot
FreeSlot == CHOOSE s \in FreeSlots : \A t \in FreeSlots : s <= t

Respond(handler, code) ==
    response' = [handler |-> handler, code |-> code]

\* process.env with both credentials set
Configured == [DEEPGRAM_API_KEY |-> TRUE, ANTHROPIC_API_KEY |-> TRUE]

\* the server has started: no store yet, which getStore creates on first use
Started ==
    /\ audioFiles = <<>>
    /\ transcriptions = <<>>
    /\ lectures = <<>>
    /\ podcastScripts = <<>>
    /\ status = createStoreStatus
    /\ disk = {}
    /\ nextFileId = 1
    /\ nextLectureId = 1
    /\ nextScriptId = 1
    /\ reqs = [s \in Slots |-> Idle]
    /\ response = [handler |-> "none", code |-> 0]

Init == Started /\ env = Configured

(***************************************************************************)
(* POST /api/upload.                                                       *)
(***************************************************************************)
RECURSIVE SkipRejected(_)
\* the loop up to its next await: rejected files are skipped
SkipRejected(files) ==
    IF files # <<>> /\ ~Accepted(Head(files))
    THEN SkipRejected(Tail(files))
    ELSE files

\* the status update that ends the handler
UploadStatus(files, st) ==
    LET all == getAllAudioFiles(files)
    IN  updateStatus(st, [totalFiles |-> Len(all),
                          phase |-> IF Len(all) > 0 THEN "uploading" ELSE "idle"])

\* the recording made of an uploaded file
NewAudioFile(id, file) ==
    [id |-> id, originalName |-> file.name, mimeType |-> MimeTypeOf(file),
     recordedAt |-> getRecordedAt(Clock(id), file.name),
     status |-> "uploaded", errorMessage |-> NoMessage]

AcceptedCount(files) == Cardinality({i \in 1..Len(files) : Accepted(files[i])})

RECURSIVE PendingIds(_)
\* identifiers the suspended upload requests will still take
PendingIds(S) ==
    IF S = {} THEN 0
    ELSE LET s == CHOOSE x \in S : TRUE
         IN  (IF reqs[s].kind = "upload" THEN AcceptedCount(reqs[s].files) ELSE 0)
             + PendingIds(S \ {s})

\* the request arrives; the handler runs to its first await or to its end
UploadBegin(files) ==
    IF Len(files) = 0
    THEN /\ Respond("upload", 400)
         /\ UNCHANGED <<storeVars, disk, nextFileId, nextLectureId, reqs,
                        fixedVars>>
    ELSE LET rest == SkipRejected(files)
         IN  IF rest = <<>>
             THEN /\ status' = UploadStatus(audioFiles, status)
                  /\ Respond("upload", 200)
                  /\ UNCHANGED <<audioFiles, transcriptions, lectures,
                                 podcastScripts, disk, nextFileId,
                                 nextLectureId, reqs, fixedVars>>
             ELSE /\ FreeSlots # {}
                  /\ nextFileId - 1 + PendingIds(Slots) + AcceptedCount(files)
                        <= MaxFiles
                  /\ reqs' = [reqs EXCEPT ![FreeSlot] =
                                [kind |-> "upload", files |-> rest]]
                  /\ UNCHANGED <<storeVars, disk, nextFileId, nextLectureId,
                                 response, fixedVars>>

\* file.arrayBuffer() resolves: the file is written and recorded, and the
\* handler runs to its next await or to its end
UploadResume(s) ==
    /\ reqs[s].kind = "upload"
    /\ LET r == reqs[s]
           id == nextFileId
           files1 == addAudioFile(audioFiles, NewAudioFile(id, Head(r.files)))
           rest == SkipRejected(Tail(r.files))
       IN  /\ nextFileId' = id + 1
           /\ disk' = disk \cup {id}
           /\ audioFiles' = files1
           /\ IF rest = <<>>
              THEN /\ status' = UploadStatus(files1, status)
                   /\ reqs' = [reqs EXCEPT ![s] = Idle]
                   /\ Respond("upload", 200)
              ELSE /\ reqs' = [reqs EXCEPT ![s] = [r EXCEPT !.files = rest]]
                   /\ UNCHANGED <<status, response>>
    /\ UNCHANGED <<transcriptions, lectures, podcastScripts, nextLectureId,
                   fixedVars>>

(***************************************************************************)
(* DELETE /api/upload: the full reset.  The saved files of the recordings  *)
(* are unlinked and the store is replaced by a fresh one; a suspended      *)
(* request keeps its locals and reaches the fresh store through getStore.  *)
(***************************************************************************)
Reset ==
    /\ disk' = disk \ DOMAIN audioFiles
    /\ audioFiles' = <<>>
    /\ transcriptions' = <<>>
    /\ lectures' = <<>>
    /\ podcastScripts' = <<>>
    /\ status' = createStoreStatus
    /\ Respond("reset", 200)
    /\ UNCHANGED <<nextFileId, nextLectureId, reqs, fixedVars>>

(***************************************************************************)
(* POST /api/transcribe.                                                   *)
(***************************************************************************)
\* body.fileIds: absent, or a list, of which only membership is used
FileIdsInputs ==
    {[given |-> FALSE, ids |-> {}]}
    \cup {[given |-> TRUE, ids |-> S] : S \in SUBSET FileIds}

\* toTranscribe, as the identifiers of the selected recordings
SelectToTranscribe(allFiles, fileIds) ==
    LET keep == [i \in 1..Len(allFiles) |->
                    IF fileIds.given
                    THEN allFiles[i].id \in fileIds.ids
                    ELSE allFiles[i].status = "uploaded"]
        chosen == Filter(allFiles, keep)
    IN  [i \in 1..Len(chosen) |-> chosen[i].id]

\* what transcribeAudioFile can do: it throws at once when the credential
\* is not set, fs.readFileSync throws at once when the saved file is gone,
\* otherwise the request to the service is under way
CallState(id, dsk, e) ==
    IF ~e.DEEPGRAM_API_KEY THEN "nokey"
    ELSE IF id \in dsk THEN "call" ELSE "rejected"

SttOutcomes(pc) ==
    IF pc = "nokey"
    THEN {[ok |-> FALSE, text |-> 0, message |-> SttKeyMessage]}
    ELSE IF pc = "rejected"
    THEN {[ok |-> FALSE, text |-> 0, message |-> ReadError]}
    ELSE {[ok |-> TRUE, text |-> t, message |-> NoMessage] : t \in Texts}
         \cup {[ok |-> FALSE, text |-> 0, message |-> m] : m \in SttMessages}

AllSttOutcomes ==
    SttOutcomes("call") \cup SttOutcomes("rejected") \cup SttOutcomes("nokey")

\* the try branch after the call returned
TranscribeSucceeded(files, id) ==
    updateAudioFile(files, id, [status |-> "transcribed"])

\* a catch branch that swallows the failure and leaves the recording as it
\* is: the variant the isolation property must tell from the code
TranscribeFailedUnmarked(files, id, message) == files

\* the catch branch of one recording
TranscribeFailed(files, id, message) ==
    updateAudioFile(files, id, [status |-> "error", errorMessage |-> message])

\* "Update count"
\* getAllAudioFiles lists every recording once, so the length of the
\* filtered list is the number of recordings that are transcribed
CountStatus(files, st) ==
    updateStatus(st, [transcribedFiles |->
        Cardinality({id \in DOMAIN files : files[id].status = "transcribed"})])

AllDone(files) ==
    \A id \in DOMAIN files : files[id].status \in {"transcribed", "error"}

\* a check that counts only transcribed recordings as done: the variant
\* the phase property must tell from the code
AllDoneStatusOnlyTranscribed(files, st) ==
    IF \A id \in DOMAIN files : files[id].status = "transcribed"
    THEN updateStatus(st, [phase |-> "processing"])
    ELSE st

\* "Check if all files are done"
AllDoneStatus(files, st) ==
    IF AllDone(files) THEN updateStatus(st, [phase |-> "processing"]) ELSE st

\* whether the for loop has another recording after toTranscribe[idx]
HasNext(toTranscribe, idx) == idx < Len(toTranscribe)

\* the request arrives; the handler runs to its first await or returns early
TranscribeBegin(fileIds) ==
    LET toTranscribe == SelectToTranscribe(getAllAudioFiles(audioFiles), fileIds)
    IN  IF Len(toTranscribe) = 0
        THEN /\ Respond("transcribe", 200)
             /\ UNCHANGED <<storeVars, disk, nextFileId, nextLectureId, reqs,
                            fixedVars>>
        ELSE /\ FreeSlots # {}
             /\ status' = updateStatus(status, [phase |-> "transcribing"])
             /\ audioFiles' = updateAudioFile(audioFiles, toTranscribe[1],
                                              [status |-> "transcribing"])
             /\ reqs' = [reqs EXCEPT ![FreeSlot] =
                           [kind |-> "transcribe", toTranscribe |-> toTranscribe,
                            idx |-> 1,
                            pc |-> CallState(toTranscribe[1], disk, env)]]
             /\ UNCHANGED <<transcriptions, lectures, podcastScripts, disk,
                            nextFileId, nextLectureId, response, fixedVars>>

\* transcribeAudioFile returns or throws for toTranscribe[idx]; the handler
\* runs to the await of the next recording or to its end
TranscribeResume(s, outcome) ==
    /\ reqs[s].kind = "transcribe"
    /\ outcome \in SttOutcomes(reqs[s].pc)
    /\ LET r == reqs[s]
           id == r.toTranscribe[r.idx]
           trs1 == IF outcome.ok
                   THEN addTranscription(transcriptions,
                            [audioFileId |-> id, text |-> outcome.text])
                   ELSE transcriptions
           files1 == IF outcome.ok
                     THEN TranscribeSucceeded(audioFiles, id)
                     ELSE TranscribeFailed(audioFiles, id, outcome.message)
           status1 == CountStatus(files1, status)
       IN  /\ transcriptions' = trs1
           /\ IF HasNext(r.toTranscribe, r.idx)
              THEN LET next == r.toTranscribe[r.idx + 1]
                   IN  /\ audioFiles' = updateAudioFile(files1, next,
                                                        [status |-> "transcribing"])
                       /\ status' = status1
                       /\ reqs' = [reqs EXCEPT ![s] =
                                     [r EXCEPT !.idx = r.idx + 1,
                                               !.pc = CallState(next, disk, env)]]
                       /\ UNCHANGED response
              ELSE /\ audioFiles' = files1
                   /\ status' = AllDoneStatus(files1, status1)
                   /\ reqs' = [reqs EXCEPT ![s] = Idle]
                   /\ Respond("transcribe", 200)
    /\ UNCHANGED <<lectures, podcastScripts, disk, nextFileId, nextLectureId,
                   fixedVars>>

(***************************************************************************)
(* POST /api/process: the Sequencer.                                       *)
(***************************************************************************)
CLOSE_THRESHOLD_MS == 5 * 60 * 1000

Abs(x) == IF x < 0 THEN -x ELSE x

\* the comparison function handed to Array.prototype.sort
CompareRecordings(a, b) ==
    IF /\ Abs(a.recordedAt - b.recordedAt) < CLOSE_THRESHOLD_MS \div MsPerMinute
       /\ SequenceOfName[a.originalName] # NoSequence
       /\ SequenceOfName[b.originalName] # NoSequence
    THEN SequenceOfName[a.originalName] - SequenceOfName[b.originalName]
    ELSE a.recordedAt - b.recordedAt

(***************************************************************************)
(* Array.prototype.sort as Node's engine runs it on fewer than 64          *)
(* elements: the leading run is found (a strictly descending one is        *)
(* reversed) and the other elements are inserted by binary search.         *)
(* Positions are counted from 0, as the engine does.                       *)
(***************************************************************************)
RECURSIVE ExtendRun(_, _, _)
\* the end (exclusive) of the run that starts at 0, looking at position idx
ExtendRun(a, idx, descending) ==
    IF idx >= Len(a) THEN idx
    ELSE LET order == CompareRecordings(a[idx + 1], a[idx])
         IN  IF (descending /\ order >= 0) \/ (~descending /\ order < 0)
             THEN idx
             ELSE ExtendRun(a, idx + 1, descending)

Reverse(a) == [i \in 1..Len(a) |-> a[Len(a) + 1 - i]]

RECURSIVE InsertionPoint(_, _, _, _)
\* the binary search of BinaryInsertionSort
InsertionPoint(a, pivot, left, right) ==
    IF left >= right THEN left
    ELSE LET mid == left + ((right - left) \div 2)
         IN  IF CompareRecordings(pivot, a[mid + 1]) < 0
             THEN InsertionPoint(a, pivot, left, mid)
             ELSE InsertionPoint(a, pivot, mid + 1, right)

\* a with the element at position start moved to position left
MoveTo(a, start, left) ==
    SubSeq(a, 1, left) \o <<a[start + 1]>>
        \o SubSeq(a, left + 1, start) \o SubSeq(a, start + 2, Len(a))

RECURSIVE BinaryInsertionSort(_, _)
\* a[0..start) is sorted; the elements from start on are inserted in turn
BinaryInsertionSort(a, start) ==
    IF start >= Len(a) THEN a
    ELSE BinaryInsertionSort(
             MoveTo(a, start, InsertionPoint(a, a[start + 1], 0, start)),
             start + 1)

\* a sort that reverses the leading run whatever its direction
MakeRunAlwaysReversed(a, run, descending) ==
    Reverse(SubSeq(a, 1, run)) \o SubSeq(a, run + 1, Len(a))

\* a with its leading run, which ends before position run, made ascending
MakeRun(a, run, descending) ==
    IF descending
    THEN Reverse(SubSeq(a, 1, run)) \o SubSeq(a, run + 1, Len(a))
    ELSE a

\* the sort once the direction of the leading run is known
SortDirected(a, descending) ==
    BinaryInsertionSort(MakeRun(a, ExtendRun(a, 2, descending), descending),
                        ExtendRun(a, 2, descending))

SortRecordings(a) ==
    IF Len(a) < 2 THEN a
    ELSE SortDirected(a, CompareRecordings(a[2], a[1]) < 0)

(***************************************************************************)
(* POST /api/process: grouping.                                            *)
(***************************************************************************)
\* the current time, for new Date()
Now == Clock(nextFileId)

TranscribedFiles(files) ==
    LET all == getAllAudioFiles(files)
    IN  Filter(all, [i \in 1..Len(all) |-> all[i].status = "transcribed"])

\* the member lists a group of the service's answer may carry
GroupIdLists == DistinctSeqs(FileIds \cup {UnknownId}, 2)

\* a group of the answer: with a member list, or without one
Groups ==
    {[hasIds |-> TRUE, audioFileIds |-> ids] : ids \in GroupIdLists}
    \cup {[hasIds |-> FALSE, audioFileIds |-> <<>>]}

\* what inferLectures can do: throw (the call fails, the answer is no text
\* or no JSON), or return parsed.lectures, which is undefined when the
\* answer has no lecture list
LlmOutcomes ==
    {[kind |-> "throw", message |-> m, groups |-> <<>>] :
        m \in LlmMessages \cup {LlmKeyMessage}}
    \cup {[kind |-> "undefined", message |-> NoMessage, groups |-> <<>>]}
    \cup {[kind |-> "groups", message |-> NoMessage, groups |-> g] :
            g \in SeqsOf(Groups, 0, MaxGroups)}

\* group.audioFileIds.map((id) => sorted.find(...)).filter(Boolean)
GroupFiles(ids, sorted) ==
    LET found == [i \in 1..Len(ids) |-> \E j \in 1..Len(sorted) : sorted[j].id = ids[i]]
        kept == Filter(ids, found)
    IN  [i \in 1..Len(kept) |->
            sorted[CHOOSE j \in 1..Len(sorted) :
                      /\ sorted[j].id = kept[i]
                      /\ \A k \in 1..(j - 1) : sorted[k].id # kept[i]]]

\* the lecture's transcript: per member its header and its text
FullTranscript(groupFiles, trs) ==
    [i \in 1..Len(groupFiles) |->
        [name |-> groupFiles[i].originalName,
         day |-> groupFiles[i].recordedAt \div MinutesPerDay,
         text |-> IF groupFiles[i].id \in DOMAIN trs
                  THEN trs[groupFiles[i].id].text ELSE EmptyText]]

\* a date taken from the first member instead of the earliest
EarliestDateOfFirst(groupFiles, now) ==
    IF Len(groupFiles) > 0 THEN groupFiles[1].recordedAt ELSE now

\* "Use the earliest recording date of files in this lecture"
EarliestDate(groupFiles, now) ==
    IF Len(groupFiles) > 0
    THEN LET dates == {groupFiles[i].recordedAt : i \in 1..Len(groupFiles)}
         IN  CHOOSE d \in dates : \A e \in dates : d <= e
    ELSE now

\* the lecture made of a group; of the fields copied from the answer only
\* the member list is kept
BuildLecture(id, group, sorted, trs, now) ==
    LET groupFiles == GroupFiles(group.audioFileIds, sorted)
    IN  [id |-> id,
         audioFileIds |-> group.audioFileIds,
         fullTranscript |-> FullTranscript(groupFiles, trs),
         createdAt |-> EarliestDate(groupFiles, now)]

RECURSIVE SaveLectures(_, _, _, _, _, _, _)
\* the loop over lectureGroups: a group without a member list throws, and
\* the lectures saved before it stay
SaveLectures(groups, i, lecs, nextId, sorted, trs, now) ==
    IF i > Len(groups)
    THEN [lectures |-> lecs, nextId |-> nextId, saved |-> i - 1, threw |-> FALSE]
    ELSE IF ~groups[i].hasIds
    THEN [lectures |-> lecs, nextId |-> nextId, saved |-> i - 1, threw |-> TRUE]
    ELSE SaveLectures(groups, i + 1,
                      addLecture(lecs, BuildLecture(nextId, groups[i], sorted, trs, now)),
                      nextId + 1, sorted, trs, now)

\* the lectures a well-formed prefix of the answer makes
LecturesMade(groups) ==
    LET bad == {i \in 1..Len(groups) : ~groups[i].hasIds}
    IN  IF bad = {} THEN Len(groups)
        ELSE (CHOOSE i \in bad : \A j \in bad : i <= j) - 1

\* getClient: inferLectures throws at once when the credential is not set
LlmCallState(e) == IF e.ANTHROPIC_API_KEY THEN "call" ELSE "nokey"

\* the request arrives; the handler runs to its await or returns early
ProcessBegin ==
    LET status1 == updateStatus(status, [phase |-> "processing"])
        transcribedFiles == TranscribedFiles(audioFiles)
    IN  /\ status' = status1
        /\ IF Len(transcribedFiles) = 0
           THEN /\ Respond("process", 400)
                /\ UNCHANGED reqs
           ELSE /\ FreeSlots # {}
                /\ reqs' = [reqs EXCEPT ![FreeSlot] =
                              [kind |-> "process",
                               sorted |-> SortRecordings(transcribedFiles),
                               pc |-> LlmCallState(env)]]
                /\ UNCHANGED response
        /\ UNCHANGED <<audioFiles, transcriptions, lectures, podcastScripts,
                       disk, nextFileId, nextLectureId, fixedVars>>

\* the catch block of the handler
ProcessFailed(st, message) ==
    updateStatus(st, [phase |-> "error", errorMessage |-> message])

\* inferLectures returns or throws; the handler runs to its end
ProcessResume(s, outcome) ==
    /\ reqs[s].kind = "process"
    /\ (reqs[s].pc = "nokey") = (outcome.message = LlmKeyMessage)
    /\ reqs' = [reqs EXCEPT ![s] = Idle]
    /\ CASE outcome.kind = "throw" ->
              /\ status' = ProcessFailed(status, outcome.message)
              /\ Respond("process", 500)
              /\ UNCHANGED <<lectures, nextLectureId>>
         [] outcome.kind = "undefined" ->
              /\ lectures' = clearLectures(lectures)
              /\ status' = ProcessFailed(status, TypeErrorMessage)
              /\ Respond("process", 500)
              /\ UNCHANGED nextLectureId
         [] outcome.kind = "groups" ->
              /\ nextLectureId - 1 + LecturesMade(outcome.groups) <= MaxLectures
              /\ LET done == SaveLectures(outcome.groups, 1, clearLectures(lectures),
                                          nextLectureId, reqs[s].sorted,
                                          transcriptions, Now)
                 IN  /\ lectures' = done.lectures
                     /\ nextLectureId' = done.nextId
                     /\ IF done.threw
                        THEN /\ status' = ProcessFailed(status, TypeErrorMessage)
                             /\ Respond("process", 500)
                        ELSE /\ status' = updateStatus(status,
                                            [lecturesGenerated |-> done.saved,
                                             phase |-> "complete"])
                             /\ Respond("process", 200)
    /\ UNCHANGED <<audioFiles, transcriptions, podcastScripts, disk, nextFileId,
                   fixedVars>>

(***************************************************************************)
(* POST /api/generate-podcast.  A lecture identifier is a number, 0 for    *)
(* one that is missing or empty; a format is a string, "" for one that is  *)
(* missing.  Of a script the identifier, the lecture, the format and the   *)
(* text are kept.                                                          *)
(***************************************************************************)
NoLectureId == 0

\* an identifier that names no lecture
UnknownLectureId == MaxLectures + 1

validFormats == {"qa", "narrative", "discussion"}

GenerateInputs ==
    [lectureId : LectureIds \cup {NoLectureId, UnknownLectureId},
     format : {"qa", "narrative", "", "song"}]

PodcastMessages == {"Unexpected response type from Claude"}

\* what generatePodcastScript can do
PodcastOutcomes(pc) ==
    IF pc = "nokey"
    THEN {[ok |-> FALSE, text |-> 0, message |-> LlmKeyMessage]}
    ELSE {[ok |-> TRUE, text |-> t, message |-> NoMessage] : t \in Texts}
         \cup {[ok |-> FALSE, text |-> 0, message |-> m] : m \in PodcastMessages}

AllPodcastOutcomes == PodcastOutcomes("call") \cup PodcastOutcomes("nokey")

\* the script made of the service's answer
NewPodcastScript(id, lectureId, format, text) ==
    [id |-> id, lectureId |-> lectureId, format |-> format, script |-> text]

\* the generation requests suspended on their await
Generating == {s \in Slots : reqs[s].kind = "generate"}

\* a validation that does not look the lecture up: the variant the
\* rejection property must tell from the code
GenerateValidationWithoutLookup(lecs, lectureId, format) ==
    IF lectureId = NoLectureId \/ format = "" THEN 400
    ELSE IF format \notin {"qa", "narrative", "discussion"} THEN 400
    ELSE 200

\* the validation at the head of the handler: the HTTP status it answers
\* with, 200 when the request passes
GenerateValidation(lecs, lectureId, format) ==
    IF lectureId = NoLectureId \/ format = "" THEN 400
    ELSE IF format \notin validFormats THEN 400
    ELSE IF getLecture(lecs, lectureId) = <<>> THEN 404
    ELSE 200

\* the request arrives; the handler returns early or runs to its await
GenerateBegin(input) ==
    IF GenerateValidation(lectures, input.lectureId, input.format) # 200
    THEN /\ Respond("generate",
                    GenerateValidation(lectures, input.lectureId, input.format))
         /\ UNCHANGED <<storeVars, disk, nextFileId, nextLectureId, reqs,
                        fixedVars>>
    ELSE /\ FreeSlots # {}
         /\ nextScriptId - 1 + Cardinality(Generating) < MaxScripts
         /\ reqs' = [reqs EXCEPT ![FreeSlot] =
                       [kind |-> "generate", lectureId |-> input.lectureId,
                        format |-> input.format, pc |-> LlmCallState(env)]]
         /\ UNCHANGED <<storeVars, disk, nextFileId, nextLectureId, response,
                        fixedVars>>

\* generatePodcastScript returns or throws; the handler runs to its end
GenerateResume(s, outcome) ==
    /\ reqs[s].kind = "generate"
    /\ outcome \in PodcastOutcomes(reqs[s].pc)
    /\ reqs' = [reqs EXCEPT ![s] = Idle]
    /\ IF outcome.ok
       THEN /\ podcastScripts' =
                  addPodcastScript(podcastScripts,
                      NewPodcastScript(nextScriptId, reqs[s].lectureId,
                                       reqs[s].format, outcome.text))
            /\ nextScriptId' = nextScriptId + 1
            /\ Respond("generate", 200)
       ELSE /\ Respond("generate", 500)
            /\ UNCHANGED <<podcastScripts, nextScriptId>>
    /\ UNCHANGED <<audioFiles, transcriptions, lectures, status, disk,
                   nextFileId, nextLectureId, env>>

(***************************************************************************)
(* Specifications.  Both run every handler with MaxInFlight requests       *)
(* suspended at a time and differ in the inputs the environment offers.    *)
(*                                                                         *)
(* Spec is rich in uploads and transcriptions: every upload request, every *)
(* fileIds list, every outcome of the speech-to-text call; the grouping    *)
(* service throws or returns an empty lecture list.                        *)
(*                                                                         *)
(* SpecGroup is rich in groupings: every answer of the grouping service;   *)
(* recordings are uploaded one per request, transcribed without a fileIds  *)
(* list, and the speech-to-text call returns the first text.               *)
(***************************************************************************)
CoreLlmOutcomes == {o \in LlmOutcomes : o.groups = <<>>}

Next ==
    \/ \E files \in UploadRequests : UploadBegin(files)
    \/ \E s \in Slots : UploadResume(s)
    \/ Reset
    \/ \E fileIds \in FileIdsInputs : TranscribeBegin(fileIds)
    \/ \E s \in Slots : \E outcome \in AllSttOutcomes : TranscribeResume(s, outcome)
    \/ ProcessBegin
    \/ \E s \in Slots : \E outcome \in CoreLlmOutcomes : ProcessResume(s, outcome)

Spec == Init /\ [][Next]_vars

GroupUploadRequests == {files \in UploadRequests : Len(files) = 1 /\ Accepted(files[1])}

GroupFileIdsInputs == {f \in FileIdsInputs : ~f.given}

GroupSttOutcomes == {o \in AllSttOutcomes : o.ok /\ o.text = 1}

NextGroup ==
    \/ \E files \in GroupUploadRequests : UploadBegin(files)
    \/ \E s \in Slots : UploadResume(s)
    \/ Reset
    \/ \E fileIds \in GroupFileIdsInputs : TranscribeBegin(fileIds)
    \/ \E s \in Slots : \E outcome \in GroupSttOutcomes : TranscribeResume(s, outcome)
    \/ ProcessBegin
    \/ \E s \in Slots : \E outcome \in LlmOutcomes : ProcessResume(s, outcome)

SpecGroup == Init /\ [][NextGroup]_vars

(***************************************************************************)
(* SpecPodcast runs all four routes: recordings are uploaded one per        *)
(* request and transcribed without a fileIds list, the speech-to-text call *)
(* fails or returns the first text, the grouping service throws or returns *)
(* one lecture of known recordings, and generation requests are sent in    *)
(* one valid format, in an invalid one and without one; the script service *)
(* fails or returns the first text.                                        *)
(*                                                                         *)
(* SpecCredential runs the same requests in every configuration of the two *)
(* credentials.                                                            *)
(***************************************************************************)
PodcastSttOutcomes == {o \in AllSttOutcomes : o.ok => o.text = 1}

PodcastLlmOutcomes ==
    {o \in LlmOutcomes :
        \/ o.kind = "throw"
        \/ /\ o.kind = "groups"
           /\ Len(o.groups) = 1
           /\ o.groups[1].hasIds
           /\ o.groups[1].audioFileIds \in {<<1>>, <<1, 2>>}}

PodcastInputs == {input \in GenerateInputs : input.format # "narrative"}

PodcastOutcomesSent == {o \in AllPodcastOutcomes : o.ok => o.text = 1}

NextPodcast ==
    \/ \E files \in GroupUploadRequests : UploadBegin(files)
    \/ \E s \in Slots : UploadResume(s)
    \/ Reset
    \/ \E fileIds \in GroupFileIdsInputs : TranscribeBegin(fileIds)
    \/ \E s \in Slots : \E outcome \in PodcastSttOutcomes : TranscribeResume(s, outcome)
    \/ ProcessBegin
    \/ \E s \in Slots : \E outcome \in PodcastLlmOutcomes : ProcessResume(s, outcome)
    \/ \E input \in PodcastInputs : GenerateBegin(input)
    \/ \E s \in Slots : \E outcome \in PodcastOutcomesSent : GenerateResume(s, outcome)

SpecPodcast == Init /\ [][NextPodcast]_vars

Environments == [DEEPGRAM_API_KEY : BOOLEAN, ANTHROPIC_API_KEY : BOOLEAN]

InitCredential == Started /\ env \in Environments

SpecCredential == InitCredential /\ [][NextPodcast]_vars

(***************************************************************************)
(* SpecSort studies the Sequencer: it starts after recordings were         *)
(* uploaded and transcribed, with every choice of their names and of the   *)
(* minutes at which their files were written, and runs the grouping        *)
(* route.  The files were written in the order the recordings were added,  *)
(* in the first minutes of 6 January 2025.                                 *)
(***************************************************************************)
\* the midnight with which that day starts
Midnight == NewDate(2025, 0, 6)

\* minutes after midnight at which a file may have been written
SortMinutes == {0, 2, 5, 7}

\* the recording of a file with this name, written at this minute, once it
\* has been transcribed
TranscribedRecording(id, name, minute) ==
    [NewAudioFile(id, [name |-> name, type |-> ""]) EXCEPT
        !.recordedAt = getRecordedAt(Midnight + minute, name),
        !.status = "transcribed"]

\* the store after n files with these names, written at these minutes, were
\* uploaded and transcribed
StartsTranscribed(n, names, minutes) ==
    /\ \A i \in 1..(n - 1) : minutes[i] <= minutes[i + 1]
    /\ audioFiles =
          [id \in 1..n |-> TranscribedRecording(id, names[id], minutes[id])]
    /\ transcriptions = [id \in 1..n |-> [audioFileId |-> id, text |-> 1]]
    /\ lectures = <<>>
    /\ podcastScripts = <<>>
    /\ status = [createStoreStatus EXCEPT !.totalFiles = n,
                                          !.transcribedFiles = n,
                                          !.phase = "processing"]
    /\ disk = 1..n
    /\ nextFileId = n + 1
    /\ nextLectureId = 1
    /\ nextScriptId = 1
    /\ env = Configured
    /\ reqs = [s \in Slots |-> Idle]
    /\ response = [handler |-> "transcribe", code |-> 200]

InitSort ==
    \E n \in 2..SortFiles :
      \E names \in [1..n -> SortNames] :
        \E minutes \in [1..n -> SortMinutes] :
          StartsTranscribed(n, names, minutes)

NextSort ==
    \/ ProcessBegin
    \/ \E s \in Slots : \E outcome \in CoreLlmOutcomes : ProcessResume(s, outcome)

SpecSort == InitSort /\ [][NextSort]_vars

(***************************************************************************)
(* SpecLive runs the upload and transcription routes without the reset,    *)
(* and every speech-to-text call that is under way returns or throws in    *)
(* the end.                                                                *)
(***************************************************************************)
NextLive ==
    \/ \E files \in GroupUploadRequests : UploadBegin(files)
    \/ \E s \in Slots : UploadResume(s)
    \/ \E fileIds \in FileIdsInputs : TranscribeBegin(fileIds)
    \/ \E s \in Slots : \E outcome \in AllSttOutcomes : TranscribeResume(s, outcome)

\* the awaited transcribeAudioFile of slot s settles
CallSettles(s) == \E outcome \in AllSttOutcomes : TranscribeResume(s, outcome)

SpecLive ==
    Init /\ [][NextLive]_vars /\ \A s \in Slots : WF_vars(CallSettles(s))

(***************************************************************************)
(* The uploads of single files whose names carry dates, and the reset.     *)
(***************************************************************************)
NextName ==
    \/ \E file \in ParseFiles : UploadBegin(<<file>>)
    \/ \E s \in Slots : UploadResume(s)
    \/ Reset

SpecName == Init /\ [][NextName]_vars

(***************************************************************************)
(* The grouping of two transcribed recordings, with every answer of the    *)
(* grouping service.                                                       *)
(***************************************************************************)
\* minutes after midnight at which a file of these may have been written
LectureMinutes == {0, 2}

InitLecture ==
    \E names \in [1..MaxFiles -> LectureNames] :
      \E minutes \in [1..MaxFiles -> LectureMinutes] :
        StartsTranscribed(MaxFiles, names, minutes)

NextLecture ==
    \/ ProcessBegin
    \/ \E s \in Slots, outcome \in LlmOutcomes : ProcessResume(s, outcome)

SpecLecture == InitLecture /\ [][NextLecture]_vars

(***************************************************************************)
(* Properties.                                                             *)
(***************************************************************************)
StatusesBehind(st) ==
    CASE st = "uploaded" -> {}
      [] st = "transcribing" -> {"uploaded"}
      [] st = "transcribed" -> {"uploaded", "transcribing"}
      [] st = "error" -> {"uploaded", "transcribing"}

\* C1: a recording's status only moves forward along uploaded ->
\* transcribing -> {transcribed | error}: no step takes a transcribed or
\* error recording back to transcribing or uploaded, nor a transcribing
\* recording back to uploaded.
C1_StatusOnlyForward ==
    [][\A id \in DOMAIN audioFiles \cap DOMAIN audioFiles' :
          audioFiles'[id].status \notin StatusesBehind(audioFiles[id].status)]_vars

\* C2: in every reachable state every transcript in the store is keyed by
\* the identifier of a recording that exists in the store.
C2_TranscriptsOfRecordings ==
    DOMAIN transcriptions \subseteq DOMAIN audioFiles

\* the step in which the grouping request of slot s returns from its await
ProcessReturns(s) == reqs[s].kind = "process" /\ reqs'[s] = Idle

\* C3: every lecture a grouping run writes has a member list that contains
\* only identifiers of recordings that were transcribed when the run
\* selected its input, whatever the grouping service returned.
C3_MembersWereTranscribed ==
    [][\A s \in Slots :
          ProcessReturns(s) =>
             \A l \in DOMAIN lectures' \ DOMAIN lectures :
                Range(lectures'[l].audioFileIds)
                   \subseteq {reqs[s].sorted[i].id : i \in 1..Len(reqs[s].sorted)}]_vars

\* C4: when a grouping request fails (the call throws, the answer is not
\* JSON, has no lecture list, or has a group without a member list) the
\* lectures in the store are what they were before, and of the store only
\* the status phase and message change, to error with a message.
C4_FailedGroupingKeepsLectures ==
    [][\A s \in Slots :
          (ProcessReturns(s) /\ response'.code = 500) =>
             /\ lectures' = lectures
             /\ UNCHANGED <<audioFiles, transcriptions, podcastScripts>>
             /\ status'.phase = "error"
             /\ status'.errorMessage # NoMessage
             /\ status' = [status EXCEPT !.phase = "error",
                                         !.errorMessage = status'.errorMessage]]_vars

PhaseMoves ==
    {<<"idle", "uploading">>, <<"uploading", "transcribing">>,
     <<"transcribing", "processing">>, <<"processing", "complete">>}

\* C5: every change of the phase is idle -> uploading, uploading ->
\* transcribing, transcribing -> processing, processing -> complete, any
\* phase -> error, or the full reset to idle.
C5_PhaseMovesForward ==
    [][status'.phase # status.phase =>
          \/ <<status.phase, status'.phase>> \in PhaseMoves
          \/ status'.phase = "error"
          \/ (Reset /\ status'.phase = "idle")]_vars

\* C6: the phase changes from transcribing to processing only when every
\* recording is transcribed or error, and no step sets the phase to
\* processing while some recording is transcribing.
C6_ProcessingAfterTranscribing ==
    [][status'.phase = "processing" /\ status.phase # "processing" =>
          /\ status.phase = "transcribing" => AllDone(audioFiles')
          /\ \A id \in DOMAIN audioFiles' :
                audioFiles'[id].status # "transcribing"]_vars

\* C7, as the specification states it: whenever a transcription request
\* has finished and every recording is transcribed or error, the phase
\* reads processing; requests that find nothing to transcribe included.
C7_Original_ProcessingWhenAllDone ==
    (response.handler = "transcribe" /\ AllDone(audioFiles))
        => status.phase = "processing"

\* the step in which the transcription request of slot s ends
TranscribeEnds(s) == reqs[s].kind = "transcribe" /\ reqs'[s] = Idle

\* C7, as the code has it: when a transcription request that submitted at
\* least one recording ends and every recording in the store is then
\* transcribed or error, that step leaves the phase at processing.
C7_ProcessingWhenBatchEndsAllDone ==
    [][\A s \in Slots :
          (TranscribeEnds(s) /\ AllDone(audioFiles'))
             => status'.phase = "processing"]_vars

\* a batch has ended with a failed and a transcribed recording, every
\* recording is done and the phase reads processing
C7_Witness ==
    /\ response.handler = "transcribe"
    /\ status.phase = "processing"
    /\ AllDone(audioFiles)
    /\ \E id \in DOMAIN audioFiles : audioFiles[id].status = "error"
    /\ \E id \in DOMAIN audioFiles : audioFiles[id].status = "transcribed"
    /\ \A s \in Slots : reqs[s] = Idle

\* C8: within one batch the failure of the call for one recording is
\* isolated: every return of the call marks its recording (while it is in
\* the store) transcribed or error by its own outcome, a failure with its
\* message; the step does not set the phase to error; the next recording
\* of the batch is submitted, and after the last one the request answers
\* 200.
C8_FailureIsolated ==
    [][\A s \in Slots : \A outcome \in AllSttOutcomes :
          TranscribeResume(s, outcome) =>
             LET r == reqs[s]
                 id == r.toTranscribe[r.idx]
             IN  /\ id \in DOMAIN audioFiles =>
                       /\ audioFiles'[id].status =
                             (IF outcome.ok THEN "transcribed" ELSE "error")
                       /\ ~outcome.ok =>
                             /\ audioFiles'[id].errorMessage = outcome.message
                             /\ outcome.message # NoMessage
                 /\ status.phase # "error" => status'.phase # "error"
                 /\ IF r.idx < Len(r.toTranscribe)
                    THEN /\ reqs'[s].kind = "transcribe"
                         /\ reqs'[s].toTranscribe = r.toTranscribe
                         /\ reqs'[s].idx = r.idx + 1
                         /\ r.toTranscribe[r.idx + 1] \in DOMAIN audioFiles =>
                               audioFiles'[r.toTranscribe[r.idx + 1]].status
                                  = "transcribing"
                    ELSE /\ reqs'[s] = Idle
                         /\ response' = [handler |-> "transcribe", code |-> 200]]_vars

\* a batch whose first recording failed is waiting for the call of its
\* second recording, and the phase is not error
C8_Witness ==
    \E s \in Slots :
        /\ reqs[s].kind = "transcribe"
        /\ reqs[s].idx = 2
        /\ reqs[s].toTranscribe[1] \in DOMAIN audioFiles
        /\ audioFiles[reqs[s].toTranscribe[1]].status = "error"
        /\ audioFiles[reqs[s].toTranscribe[1]].errorMessage \in SttMessages
        /\ reqs[s].toTranscribe[2] \in DOMAIN audioFiles
        /\ audioFiles[reqs[s].toTranscribe[2]].status = "transcribing"
        /\ status.phase = "transcribing"

\* C9: whenever no request is in flight the status counters equal the
\* values recomputed from the store.
C9_CountersRecomputed ==
    (\A s \in Slots : reqs[s] = Idle) =>
        /\ status.totalFiles = Cardinality(DOMAIN audioFiles)
        /\ status.transcribedFiles =
              Cardinality({id \in DOMAIN audioFiles :
                              audioFiles[id].status = "transcribed"})
        /\ status.lecturesGenerated = Cardinality(DOMAIN lectures)

\* C10: once a transcript for a recording is in the store, no step other
\* than the full reset replaces or changes it.
C10_TranscriptImmutable ==
    [][Reset \/ \A id \in DOMAIN transcriptions :
                   /\ id \in DOMAIN transcriptions'
                   /\ transcriptions'[id] = transcriptions[id]]_vars

\* C11: immediately after the full reset the store holds no recordings, no
\* transcripts, no lectures and no podcast scripts, the three counters are
\* 0, the phase is idle and there is no error message, whatever the state
\* before.
C11_ResetEmptiesStore ==
    [][Reset =>
          /\ audioFiles' = <<>>
          /\ transcriptions' = <<>>
          /\ lectures' = <<>>
          /\ podcastScripts' = <<>>
          /\ status'.totalFiles = 0
          /\ status'.transcribedFiles = 0
          /\ status'.lecturesGenerated = 0
          /\ status'.phase = "idle"
          /\ status'.errorMessage = NoMessage]_vars

\* a reset has answered after recordings, lectures and scripts had been
\* made, while another request is suspended, and the store is empty
C11_Witness ==
    /\ response.handler = "reset"
    /\ nextFileId > 1
    /\ nextLectureId > 1
    /\ nextScriptId > 1
    /\ \E s \in Slots : reqs[s] # Idle
    /\ audioFiles = <<>>
    /\ podcastScripts = <<>>
    /\ status = createStoreStatus

\* the step of an upload request in which no file is accepted (or which
\* carries no files)
UploadOfNothing ==
    \E files \in UploadRequests : AcceptedCount(files) = 0 /\ UploadBegin(files)

\* C12: an upload request in which every file has a disallowed type, or
\* which carries no files, adds no recording and leaves the status (phase
\* and counters) as it was, in whatever state it arrives.
C12_RejectedUploadChangesNothing ==
    [][UploadOfNothing => audioFiles' = audioFiles /\ status' = status]_vars

\* the step in which the generation request of slot s ends
GenerateEnds(s) == reqs[s].kind = "generate" /\ reqs'[s] = Idle

\* C13: when a script-generation request fails in the external call no
\* script is added, the rest of the store is unchanged, and the status
\* phase is set to error with a message.
C13_FailedGenerationSetsError ==
    [][\A s \in Slots :
          (GenerateEnds(s) /\ response'.code = 500) =>
             /\ UNCHANGED <<podcastScripts, audioFiles, transcriptions, lectures>>
             /\ status'.phase = "error"
             /\ status'.errorMessage # NoMessage]_vars

\* a generation request the claim C14 calls invalid
InvalidGenerate(input) ==
    \/ input.lectureId = NoLectureId
    \/ input.format = ""
    \/ input.format \notin {"qa", "narrative", "discussion"}
    \/ input.lectureId \notin DOMAIN lectures

\* C14: a script-generation request with a missing lectureId or format, a
\* format outside {qa, narrative, discussion}, or a lectureId that matches
\* no lecture is rejected (400 or 404) without calling the external
\* service and without changing any store collection or the status.
C14_InvalidGenerateRejected ==
    [][\A input \in PodcastInputs :
          (InvalidGenerate(input) /\ GenerateBegin(input)) =>
             /\ response' = [handler |-> "generate",
                             code |-> IF /\ input.lectureId # NoLectureId
                                         /\ input.format \in validFormats
                                      THEN 404 ELSE 400]
             /\ UNCHANGED <<storeVars, reqs, nextScriptId>>]_vars

\* a request for a lecture that does not exist, in a valid format, was
\* answered 404 while lectures and recordings are in the store
C14_Witness ==
    /\ response = [handler |-> "generate", code |-> 404]
    /\ lectures # <<>>
    /\ status.phase = "complete"
    /\ \A s \in Slots : reqs[s] = Idle

\* the step in which the operation of slot s meets the missing credential
MeetsMissingCredential(s) ==
    /\ reqs[s].kind \in {"transcribe", "process", "generate"}
    /\ reqs[s].pc = "nokey"
    /\ reqs'[s] # reqs[s]

\* C15: when the credential of an external service is missing the
\* operation (transcription batch, grouping, script generation) fails as a
\* whole and at once: the request ends there, no transcript, lecture or
\* script is written, the phase does not advance to a later phase, and the
\* caller gets an error.
C15_MissingCredentialFailsOperation ==
    [][\A s \in Slots :
          MeetsMissingCredential(s) =>
             /\ reqs'[s] = Idle
             /\ response'.code >= 400
             /\ UNCHANGED <<transcriptions, lectures, podcastScripts>>
             /\ status'.phase \in {status.phase, "error"}]_vars

\* C16: an upload request moves the phase to uploading only if that
\* request accepted at least one recording: a request that accepts none
\* does not put the pipeline into the uploading phase.
C16_UploadingNeedsAcceptedRecording ==
    [][(UploadOfNothing /\ status.phase # "uploading")
          => status'.phase # "uploading"]_vars

\* C17: podcast scripts are an append-only history: a successful
\* generation request adds exactly one script under a fresh identifier,
\* every step but the full reset leaves every existing script as it is, and
\* only a successful generation request changes the scripts.
C17_ScriptsAppendOnly ==
    [][Reset \/
          /\ \A id \in DOMAIN podcastScripts :
                /\ id \in DOMAIN podcastScripts'
                /\ podcastScripts'[id] = podcastScripts[id]
          /\ \A s \in Slots :
                (GenerateEnds(s) /\ response'.code = 200) =>
                   Cardinality(DOMAIN podcastScripts' \ DOMAIN podcastScripts) = 1
          /\ podcastScripts' # podcastScripts =>
                \E s \in Slots : GenerateEnds(s) /\ response'.code = 200]_vars

\* two scripts of one lecture are in the store together
C17_Witness ==
    \E a, b \in DOMAIN podcastScripts :
        /\ a # b
        /\ podcastScripts[a].lectureId = podcastScripts[b].lectureId
        /\ podcastScripts[a].lectureId \in DOMAIN lectures

\* a recording without the two fields the transcription stage writes
Recorded(file) ==
    [k \in DOMAIN file \ {"status", "errorMessage"} |-> file[k]]

\* C18: between full resets the set of recording identifiers only grows
\* and only an upload adds one; every step leaves the fields of a
\* recording other than status and errorMessage as they are; only upload
\* and transcription requests change a recording at all.
C18_RecordingsKept ==
    [][Reset \/
          /\ \A id \in DOMAIN audioFiles :
                /\ id \in DOMAIN audioFiles'
                /\ Recorded(audioFiles'[id]) = Recorded(audioFiles[id])
          /\ DOMAIN audioFiles' # DOMAIN audioFiles =>
                \E s \in Slots : reqs'[s] # reqs[s] /\ reqs[s].kind = "upload"
          /\ audioFiles' # audioFiles =>
                \E s \in Slots :
                   /\ reqs'[s] # reqs[s]
                   /\ \/ reqs[s].kind \in {"upload", "transcribe"}
                      \/ reqs'[s].kind = "transcribe"]_vars

\* lectures and a script were made of two recordings, one transcribed and
\* one failed, that are still in the store
C18_Witness ==
    /\ lectures # <<>>
    /\ podcastScripts # <<>>
    /\ Cardinality(DOMAIN audioFiles) = 2
    /\ \E id \in DOMAIN audioFiles : audioFiles[id].status = "transcribed"
    /\ \E id \in DOMAIN audioFiles : audioFiles[id].status = "error"

\* whether the recordings a and b are less than 5 minutes apart
Close(a, b) ==
    Abs(a.recordedAt - b.recordedAt) < CLOSE_THRESHOLD_MS \div MsPerMinute

\* C19: of any two transcribed recordings less than 5 minutes apart that
\* both have a sequence number, the numbers different, the Sequencer places
\* the one with the smaller number first.
C19_SmallerSequenceFirst ==
    \A s \in Slots :
        reqs[s].kind = "process" =>
            \A i, j \in 1..Len(reqs[s].sorted) :
                (/\ Close(reqs[s].sorted[i], reqs[s].sorted[j])
                 /\ SequenceOfName[reqs[s].sorted[i].originalName] # NoSequence
                 /\ SequenceOfName[reqs[s].sorted[j].originalName] # NoSequence
                 /\ SequenceOfName[reqs[s].sorted[i].originalName]
                       < SequenceOfName[reqs[s].sorted[j].originalName])
                    => i < j

\* C20: of any two transcribed recordings 5 minutes or more apart the
\* Sequencer places the earlier one first, whatever their sequence
\* numbers.
C20_EarlierFirstWhenApart ==
    \A s \in Slots :
        reqs[s].kind = "process" =>
            \A i, j \in 1..Len(reqs[s].sorted) :
                (/\ ~Close(reqs[s].sorted[i], reqs[s].sorted[j])
                 /\ reqs[s].sorted[i].recordedAt < reqs[s].sorted[j].recordedAt)
                    => i < j

\* the sequence number of a recording
SequenceOf(file) == SequenceOfName[file.originalName]

\* C21: of any two transcribed recordings of which at least one has no
\* sequence number, the Sequencer places the one with the earlier
\* timestamp first, also when they are less than 5 minutes apart.
C21_TimestampOrderWithoutSequence ==
    \A s \in Slots :
        reqs[s].kind = "process" =>
            \A i, j \in 1..Len(reqs[s].sorted) :
                (/\ \/ SequenceOf(reqs[s].sorted[i]) = NoSequence
                    \/ SequenceOf(reqs[s].sorted[j]) = NoSequence
                 /\ reqs[s].sorted[i].recordedAt < reqs[s].sorted[j].recordedAt)
                    => i < j

\* C22: the Sequencer is idempotent: ordering the list it produced gives
\* the same list.
C22_OrderIdempotent ==
    \A s \in Slots :
        reqs[s].kind = "process" =>
            SortRecordings(reqs[s].sorted) = reqs[s].sorted

\* three recordings were ordered, and not in the order they were stored in
C22_Witness ==
    \E s \in Slots :
        /\ reqs[s].kind = "process"
        /\ Len(reqs[s].sorted) = 3
        /\ reqs[s].sorted # TranscribedFiles(audioFiles)
        /\ \A i, j \in 1..3 :
              i # j => CompareRecordings(reqs[s].sorted[i], reqs[s].sorted[j]) # 0

\* C23: the comparison of the Sequencer is transitive: of any three
\* recordings it orders, if it places the first before the second and the
\* second before the third, it places the first before the third.
C23_ComparisonTransitive ==
    \A s \in Slots :
        reqs[s].kind = "process" =>
            \A i, j, k \in 1..Len(reqs[s].sorted) :
                (/\ CompareRecordings(reqs[s].sorted[i], reqs[s].sorted[j]) < 0
                 /\ CompareRecordings(reqs[s].sorted[j], reqs[s].sorted[k]) < 0)
                    => CompareRecordings(reqs[s].sorted[i], reqs[s].sorted[k]) < 0

\* the step of a grouping request that finds no transcribed recording
ProcessOfNothing ==
    Len(TranscribedFiles(audioFiles)) = 0 /\ ProcessBegin

\* C28: a grouping request that finds no recording with status transcribed
\* is rejected and leaves the store and the status, the phase included, as
\* they were.
C28_RejectedGroupingChangesNothing ==
    [][ProcessOfNothing => response'.code = 400 /\ UNCHANGED storeVars]_vars

\* the number of days of month m (1..12) of year y
DaysInMonth(y, m) == MakeDay(y, m, 1) - MakeDay(y, m - 1, 1)

\* month m and day d exist in the calendar of year y
ValidDay(y, m, d) == m \in 1..12 /\ d \in 1..DaysInMonth(y, m)

\* year, month and day as written at position i of base
WrittenAt(base, i) ==
    [y |-> NumberAt(base, i, 4), m |-> NumberAt(base, i + 5, 2),
     d |-> NumberAt(base, i + 8, 2)]

\* the dates written with separators in base
WrittenIn(base) ==
    {WrittenAt(base, i) : i \in {j \in 1..Len(base) : YmdMatchesAt(base, j)}}

\* the first of them, when it is not a date of the calendar
InvalidFirst(base, at) ==
    /\ at # {}
    /\ ~ValidDay(WrittenAt(base, First(at)).y, WrittenAt(base, First(at)).m,
                 WrittenAt(base, First(at)).d)

\* whether the first match of the separator pattern in a name is not a date
\* of the calendar
InvalidFirstOfName ==
    [name \in Names |->
        InvalidFirst(basename(name),
                     {j \in 1..Len(basename(name)) :
                         YmdMatchesAt(basename(name), j)})]

\* what the patterns after the first find in a name
LaterDateOfName ==
    [name \in Names |->
        OrElseDate(CompactDate(basename(name)),
                   MonthDate(LowerCase(basename(name)), 1))]

\* the dates of the calendar after 2000 written with separators in a name
ValidDatesOfName ==
    [name \in Names |->
        {w \in WrittenIn(basename(name)) : w.y > 2000 /\ ValidDay(w.y, w.m, w.d)}]

\* C24: a match of the separator pattern that is not a date of the calendar
\* (month outside 1..12 or day outside the month) is not returned: the
\* recording gets what the later patterns find, or the time its file was
\* written when they find nothing.
C24_InvalidDateSkipped ==
    \A id \in DOMAIN audioFiles :
        InvalidFirstOfName[audioFiles[id].originalName] =>
            audioFiles[id].recordedAt =
                OrElseDate(LaterDateOfName[audioFiles[id].originalName], Clock(id))

\* C25: a recording whose name contains a date of the calendar after 2000
\* written YYYY-MM-DD, YYYY_MM_DD or YYYY.MM.DD is recorded at that date,
\* wherever it stands in the name and whatever digits come before it.
C25_WrittenDateReturned ==
    \A id \in DOMAIN audioFiles :
        \A w \in ValidDatesOfName[audioFiles[id].originalName] :
            audioFiles[id].recordedAt = NewDate(w.y, w.m - 1, w.d)

\* C27: the recorded-at time stored on an uploaded recording is the date
\* parseDateFromFilename finds in its original name, and the time its
\* saved file was last modified when it finds none.
C27_RecordedAtFromNameElseFile ==
    \A id \in DOMAIN audioFiles :
        audioFiles[id].recordedAt =
            IF parseDateFromFilename(audioFiles[id].originalName) # NoDate
            THEN parseDateFromFilename(audioFiles[id].originalName)
            ELSE Clock(id)

\* a recording dated by its name and one dated by its file are stored
C27_Witness ==
    \E id, other \in DOMAIN audioFiles :
        /\ DateOfName[audioFiles[id].originalName] # NoDate
        /\ audioFiles[id].recordedAt = DateOfName[audioFiles[id].originalName]
        /\ audioFiles[id].recordedAt # Clock(id)
        /\ DateOfName[audioFiles[other].originalName] = NoDate
        /\ audioFiles[other].recordedAt = Clock(other)

\* the token "part", in either case, followed by a number, at position i
PartTokenAt(base, i) ==
    /\ OccursAt(LowerCase(base), i, <<"p", "a", "r", "t">>)
    /\ Skip(base, PartDigits(base, i), Digits) > PartDigits(base, i)

\* the number that follows the leftmost of the tokens at the positions at
PartTokenAmong(base, at) ==
    IF at = {} THEN NoSequence
    ELSE PartNumber(base, PartDigits(base, First(at)))

PartToken(base) ==
    PartTokenAmong(base, {i \in 1..Len(base) : PartTokenAt(base, i)})

\* the number of the first of the four patterns that matches a name:
\* leading number, "part" token, trailing number, all-digit name
FirstPatternOfName ==
    [name \in Names |->
        OrElseSequence(LeadingMatch(basename(name)),
            OrElseSequence(PartToken(basename(name)),
                OrElseSequence(TrailingMatch(basename(name)),
                               BareMatch(basename(name)))))]

\* C26: the sequence number of a recording's name is the number of the
\* first of the patterns leading number, "part" token, trailing number,
\* all-digit name that matches it, and none exactly when none matches.
C26_FirstPatternWins ==
    \A s \in Slots :
        reqs[s].kind = "process" =>
            \A i \in 1..Len(reqs[s].sorted) :
                parseSequenceFromFilename(reqs[s].sorted[i].originalName)
                    = FirstPatternOfName[reqs[s].sorted[i].originalName]

\* the recordings of sorted that a member list names, in the order of sorted
MembersInOrder(sorted, ids) ==
    Filter(sorted, [i \in 1..Len(sorted) |-> sorted[i].id \in Range(ids)])

\* C29: the full transcript of a lecture a grouping run writes holds the
\* transcripts of its member recordings in the order of the Sequencer,
\* whatever order the grouping service lists the members in.
C29_TranscriptInSequencerOrder ==
    [][\A s \in Slots :
          ProcessReturns(s) =>
             \A l \in DOMAIN lectures' \ DOMAIN lectures :
                lectures'[l].fullTranscript =
                    FullTranscript(MembersInOrder(reqs[s].sorted,
                                                  lectures'[l].audioFileIds),
                                   transcriptions)]_vars

\* the recorded-at times of the members of a list that are in sorted
MemberDates(sorted, ids) ==
    {sorted[i].recordedAt : i \in {j \in 1..Len(sorted) : sorted[j].id \in Range(ids)}}

\* d is the minimum of the set dates
IsMinimum(d, dates) == d \in dates /\ \A e \in dates : d <= e

\* C30 as stated: the creation time of every lecture a grouping run writes
\* is the minimum recorded-at time of its members that were in the run's
\* input.
C30_Original_CreatedAtEarliestMember ==
    [][\A s \in Slots :
          ProcessReturns(s) =>
             \A l \in DOMAIN lectures' \ DOMAIN lectures :
                IsMinimum(lectures'[l].createdAt,
                          MemberDates(reqs[s].sorted, lectures'[l].audioFileIds))]_vars

\* C30: the creation time of a lecture a grouping run writes is the minimum
\* recorded-at time of its members that were in the run's input when there
\* is such a member, and the time at which the run writes it otherwise.
C30_CreatedAtEarliestMemberOrNow ==
    [][\A s \in Slots :
          ProcessReturns(s) =>
             \A l \in DOMAIN lectures' \ DOMAIN lectures :
                IF MemberDates(reqs[s].sorted, lectures'[l].audioFileIds) # {}
                THEN IsMinimum(lectures'[l].createdAt,
                               MemberDates(reqs[s].sorted,
                                           lectures'[l].audioFileIds))
                ELSE lectures'[l].createdAt = Now]_vars

\* a lecture whose first listed member was recorded after its second
C30_Witness ==
    \E l \in DOMAIN lectures :
        /\ Len(lectures[l].audioFileIds) = 2
        /\ Range(lectures[l].audioFileIds) \subseteq DOMAIN audioFiles
        /\ audioFiles[lectures[l].audioFileIds[1]].recordedAt
              > audioFiles[lectures[l].audioFileIds[2]].recordedAt
        /\ lectures[l].createdAt
              = audioFiles[lectures[l].audioFileIds[2]].recordedAt

\* C31: of any two transcribed recordings less than 5 minutes apart that
\* have the same sequence number, the Sequencer places the one with the
\* earlier timestamp first, in whatever order they were uploaded.
C31_EarlierFirstWhenSequencesEqual ==
    \A s \in Slots :
        reqs[s].kind = "process" =>
            \A i, j \in 1..Len(reqs[s].sorted) :
                (/\ Close(reqs[s].sorted[i], reqs[s].sorted[j])
                 /\ SequenceOf(reqs[s].sorted[i]) # NoSequence
                 /\ SequenceOf(reqs[s].sorted[i]) = SequenceOf(reqs[s].sorted[j])
                 /\ reqs[s].sorted[i].recordedAt < reqs[s].sorted[j].recordedAt)
                    => i < j

\* recording id is in the store with one of these statuses
HasStatus(id, statuses) ==
    id \in DOMAIN audioFiles /\ audioFiles[id].status \in statuses

\* C32: when every speech-to-text call returns or throws in the end and
\* there is no reset, every recording set to transcribing is later set to
\* transcribed or error, and every transcription request ends.
C32_TranscribingEnds ==
    /\ \A id \in FileIds :
          HasStatus(id, {"transcribing"}) ~> HasStatus(id, {"transcribed", "error"})
    /\ \A s \in Slots :
          (reqs[s].kind = "transcribe") ~> (reqs[s].kind # "transcribe")

\* a request waits for the call of its second recording, after its first
\* was set to transcribed or error
C32_Witness ==
    \E s \in Slots :
        /\ reqs[s].kind = "transcribe"
        /\ reqs[s].idx = 2
        /\ HasStatus(reqs[s].toTranscribe[2], {"transcribing"})
        /\ HasStatus(reqs[s].toTranscribe[1], {"transcribed", "error"})

\* the store as createStore makes it
FreshStore ==
    /\ audioFiles = <<>>
    /\ transcriptions = <<>>
    /\ lectures = <<>>
    /\ podcastScripts = <<>>
    /\ status = createStoreStatus

\* the request of slot s waits for an external call it made when the store
\* held recordings: in a store without recordings it began before a reset
BeganBeforeReset(s) ==
    reqs[s].kind \in {"transcribe", "process", "generate"} /\ audioFiles = <<>>

\* C33: a request that was suspended when a full reset ran writes nothing
\* into the new store: while the store is as the reset left it, the step
\* in which such a request resumes leaves it empty and the phase idle.
C33_StaleRequestWritesNothing ==
    [][\A s \in Slots :
          (BeganBeforeReset(s) /\ FreshStore /\ reqs'[s] # reqs[s]) =>
             /\ audioFiles' = <<>>
             /\ transcriptions' = <<>>
             /\ lectures' = <<>>
             /\ podcastScripts' = <<>>
             /\ status' = createStoreStatus]_vars

\* the step in which the transcription request of slot s goes on to the
\* next recording of its selection and submits it
SubmitsNext(s) ==
    /\ reqs[s].kind = "transcribe"
    /\ reqs'[s].kind = "transcribe"
    /\ reqs'[s].idx = reqs[s].idx + 1

\* C34: with transcription requests that give no fileIds list, a recording
\* is submitted to the speech-to-text service at most once: a request does
\* not submit a recording of its selection that another request has
\* picked up since (one that is no longer uploaded).
C34_SubmittedAtMostOnce ==
    [][\A s \in Slots :
          (/\ SubmitsNext(s)
           /\ reqs[s].toTranscribe[reqs[s].idx + 1] \in DOMAIN audioFiles)
             => audioFiles[reqs[s].toTranscribe[reqs[s].idx + 1]].status
                   = "uploaded"]_vars

\* C35: when a grouping request that ran concurrently with another one
\* succeeds, the lectures in the store are exactly the lectures it made,
\* none of the other run: clearing and rebuilding are one step.
C35_LecturesOfOneRun ==
    [][\A s \in Slots :
          (ProcessReturns(s) /\ response'.code = 200) =>
             /\ DOMAIN lectures' = nextLectureId..(nextLectureId' - 1)
             /\ status'.lecturesGenerated = Cardinality(DOMAIN lectures')]_vars

\* a grouping request is suspended while the store holds the lectures of
\* another run that succeeded after this request began
C35_Witness ==
    \E s \in Slots :
        /\ reqs[s].kind = "process"
        /\ status.phase = "complete"
        /\ lectures # <<>>

\* C36: in every reachable state the lecture identifier of every podcast
\* script is that of a lecture in the store.
C36_ScriptsOfLectures ==
    \A id \in DOMAIN podcastScripts :
        podcastScripts[id].lectureId \in DOMAIN lectures

\* C37: in every reachable state every recording with status transcribed
\* has a transcript in the store under its identifier.
C37_TranscribedHasTranscript ==
    \A id \in DOMAIN audioFiles :
        audioFiles[id].status = "transcribed" => id \in DOMAIN transcriptions

\* a transcribed recording next to a recording that failed or is under way
C37_Witness ==
    \E id, other \in DOMAIN audioFiles :
        /\ audioFiles[id].status = "transcribed"
        /\ id \in DOMAIN transcriptions
        /\ audioFiles[other].status \in {"transcribing", "error"}

\* C38: a recording carries an error message only while its status is
\* error, and the status carries one only while the phase is error.
C38_MessagesOnlyWithErrors ==
    /\ \A id \in DOMAIN audioFiles :
          audioFiles[id].errorMessage # NoMessage => audioFiles[id].status = "error"
    /\ status.errorMessage # NoMessage => status.phase = "error"

====
